---- MODULE Spec2Model ----
(***************************************************************************)
(* Model of the UXUY address checker's engine (src/src/utils/textAnalysis.ts *)
(* lines 1-574) and of the handler that runs it (TextCheckerContext.tsx).   *)
(* A string is a sequence of one-character strings; a text is a string in   *)
(* which "\n" separates the lines.                                          *)
(***************************************************************************)
EXTENDS Integers, Sequences, FiniteSets, TLC

VARIABLES inviteText, referrerText, analysisResults, isChecked, fnArgs, fnResult

vars == <<inviteText, referrerText, analysisResults, isChecked, fnArgs, fnResult>>

(***************************************************************************)
(* JavaScript string primitives the engine uses.                           *)
(***************************************************************************)

LowerOf ==
  ("A" :> "a") @@ ("B" :> "b") @@ ("C" :> "c") @@ ("D" :> "d") @@ ("E" :> "e") @@
  ("F" :> "f") @@ ("G" :> "g") @@ ("H" :> "h") @@ ("T" :> "t") @@ ("U" :> "u") @@
  ("X" :> "x") @@ ("Y" :> "y")

WhitespaceChars == {" ", "\t", "\n"}

HexChars == {"0", "1", "2", "3", "4", "5", "6", "7", "8", "9",
             "a", "b", "c", "d", "e", "f", "A", "B", "C", "D", "E", "F"}

DigitValue ==
  ("0" :> 0) @@ ("1" :> 1) @@ ("2" :> 2) @@ ("3" :> 3) @@ ("4" :> 4) @@
  ("5" :> 5) @@ ("6" :> 6) @@ ("7" :> 7) @@ ("8" :> 8) @@ ("9" :> 9)

\* String.prototype.toLowerCase
toLowerCase(s) == [i \in 1..Len(s) |-> IF s[i] \in DOMAIN LowerOf THEN LowerOf[s[i]] ELSE s[i]]

RECURSIVE trimStart(_)
trimStart(s) ==
  IF s # <<>> /\ Head(s) \in WhitespaceChars THEN trimStart(Tail(s)) ELSE s

RECURSIVE trimEnd(_)
trimEnd(s) ==
  IF s # <<>> /\ s[Len(s)] \in WhitespaceChars THEN trimEnd(SubSeq(s, 1, Len(s) - 1)) ELSE s

\* String.prototype.trim
trim(s) == trimEnd(trimStart(s))

\* s.startsWith(p)
startsWith(s, p) == Len(s) >= Len(p) /\ SubSeq(s, 1, Len(p)) = p

\* s.slice(0, n) and s.substring(0, n), n >= 0
sliceFirst(s, n) == SubSeq(s, 1, IF Len(s) < n THEN Len(s) ELSE n)

\* s.slice(-n) and s.substring(s.length - n): a negative start is clamped to 0
sliceLast(s, n) == SubSeq(s, (IF Len(s) < n THEN 0 ELSE Len(s) - n) + 1, Len(s))

\* s.slice(n)
sliceFrom(s, n) == SubSeq(s, n + 1, Len(s))

\* s.replace(/[^a-f0-9]/gi, '')
stripNonHex(s) == SelectSeq(s, LAMBDA c : c \in HexChars)

Prefix0x == <<"0", "x">>

(***************************************************************************)
(* The normalizer and the fingerprint extractor.                           *)
(***************************************************************************)

\* A slip of normalizeAddress: the '0x' prefix is not cut off before the
\* non-hex characters are removed.
normalizeAddressKeepsPrefixDigit(address) ==
  IF address = <<>> THEN address
  ELSE LET normalized == toLowerCase(trim(address))
           hasPrefix == startsWith(normalized, Prefix0x)
           cleanAddress == stripNonHex(normalized)
       IN  IF ~hasPrefix /\ Len(cleanAddress) > 0
           THEN Prefix0x \o cleanAddress
           ELSE (IF hasPrefix THEN Prefix0x ELSE <<>>) \o cleanAddress

normalizeAddress(address) ==
  IF address = <<>> THEN address
  ELSE LET normalized == toLowerCase(trim(address))
           hasPrefix == startsWith(normalized, Prefix0x)
           prefix == IF hasPrefix THEN Prefix0x ELSE <<>>
           cleanAddress == stripNonHex(IF hasPrefix THEN sliceFrom(normalized, 2) ELSE normalized)
       IN  IF ~hasPrefix /\ Len(cleanAddress) > 0
           THEN Prefix0x \o cleanAddress
           ELSE prefix \o cleanAddress

\* The earlier normalizer kept in the same file (case, whitespace, prefix only).
FullAddressLen == 40

normalizeAddressPrefixOnly(address) ==
  IF address = <<>> THEN address
  ELSE LET normalized == toLowerCase(trim(address))
       IN  IF ~startsWith(normalized, Prefix0x)
              /\ Len(normalized) = FullAddressLen
              /\ \A i \in 1..Len(normalized) : normalized[i] \in HexChars
           THEN Prefix0x \o normalized
           ELSE normalized

MinPatternLen == 9
PatternHeadLen == 5
PatternTailLen == 4

\* The older fingerprint of the same file: the 5 characters after '0x' and the
\* last 4, for addresses of at least 11 characters.
getAddressMatchPatternAfterPrefix(address) ==
  LET normalized == normalizeAddress(address)
      hasPrefix == startsWith(normalized, Prefix0x)
      cleanAddress == IF hasPrefix THEN sliceFrom(normalized, 2) ELSE normalized
  IN  IF normalized = <<>> \/ Len(normalized) < MinPatternLen + 2
      THEN normalized
      ELSE (IF hasPrefix THEN Prefix0x ELSE <<>>)
             \o sliceFirst(cleanAddress, PatternHeadLen) \o sliceLast(cleanAddress, PatternTailLen)

\* the fingerprint cut from the trimmed, lower-cased raw address
getAddressMatchPatternOfRaw(address) ==
  LET raw == toLowerCase(trim(address))
  IN  IF Len(raw) < MinPatternLen THEN raw
      ELSE sliceFirst(raw, PatternHeadLen) \o sliceLast(raw, PatternTailLen)

getAddressMatchPattern(address) ==
  LET normalized == normalizeAddress(address)
  IN  IF normalized = <<>> \/ Len(normalized) < MinPatternLen
      THEN normalized
      ELSE sliceFirst(normalized, PatternHeadLen) \o sliceLast(normalized, PatternTailLen)

\* the parts of an address, <<>> standing for null
extractPatternParts(address) ==
  IF address = <<>> THEN <<>>
  ELSE LET cleaned == trim(address)
       IN  IF ~startsWith(cleaned, Prefix0x) \/ Len(cleaned) < MinPatternLen THEN <<>>
           ELSE <<[firstPart |-> sliceFirst(cleaned, PatternHeadLen),
                   lastPart |-> sliceLast(cleaned, PatternTailLen)]>>

\* the fallback to the fingerprints taken only when the first address has no parts
advancedPatternMatchOneSided(addr1, addr2) ==
  IF addr1 = <<>> \/ addr2 = <<>> THEN FALSE
  ELSE IF extractPatternParts(addr1) = <<>>
       THEN /\ getAddressMatchPattern(addr1) = getAddressMatchPattern(addr2)
            /\ getAddressMatchPattern(addr1) # <<>>
       ELSE /\ extractPatternParts(addr2) # <<>>
            /\ toLowerCase(extractPatternParts(addr1)[1].firstPart)
                 = toLowerCase(extractPatternParts(addr2)[1].firstPart)
            /\ toLowerCase(extractPatternParts(addr1)[1].lastPart)
                 = toLowerCase(extractPatternParts(addr2)[1].lastPart)

advancedPatternMatch(addr1, addr2) ==
  IF addr1 = <<>> \/ addr2 = <<>> THEN FALSE
  ELSE IF extractPatternParts(addr1) = <<>> \/ extractPatternParts(addr2) = <<>>
       THEN /\ getAddressMatchPattern(addr1) = getAddressMatchPattern(addr2)
            /\ getAddressMatchPattern(addr1) # <<>>
       ELSE /\ toLowerCase(extractPatternParts(addr1)[1].firstPart)
                 = toLowerCase(extractPatternParts(addr2)[1].firstPart)
            /\ toLowerCase(extractPatternParts(addr1)[1].lastPart)
                 = toLowerCase(extractPatternParts(addr2)[1].lastPart)

addressesMatchByPattern(addr1, addr2) ==
  getAddressMatchPattern(addr1) = getAddressMatchPattern(addr2)

(***************************************************************************)
(* Parsing of the two input texts.                                         *)
(***************************************************************************)

RECURSIVE indexOfChar(_, _, _)
\* the first position >= i of s that holds a character of the set cs, 0 if none
indexOfChar(s, cs, i) ==
  IF i > Len(s) THEN 0
  ELSE IF s[i] \in cs THEN i
  ELSE indexOfChar(s, cs, i + 1)

RECURSIVE splitLines(_)
\* text.split('\n')
splitLines(text) ==
  LET k == indexOfChar(text, {"\n"}, 1)
  IN  IF k = 0 THEN <<text>>
      ELSE <<SubSeq(text, 1, k - 1)>> \o splitLines(SubSeq(text, k + 1, Len(text)))

RECURSIVE splitWhitespace(_)
\* line.split(/\s+/) of a trimmed, non-empty line
splitWhitespace(line) ==
  LET k == indexOfChar(line, WhitespaceChars, 1)
  IN  IF k = 0 THEN <<line>>
      ELSE <<SubSeq(line, 1, k - 1)>> \o splitWhitespace(trimStart(SubSeq(line, k, Len(line))))

mapSeq(s, Op(_)) == [i \in 1..Len(s) |-> Op(s[i])]

\* text.trim().split('\n').filter(line => line.trim()).map(line => line.trim())
nonBlankLines(text) ==
  mapSeq(SelectSeq(splitLines(trim(text)), LAMBDA line : trim(line) # <<>>), trim)

\* the lines of the text without the filter on blank lines
parseReferrerTextKeepsBlank(text) == mapSeq(splitLines(trim(text)), trim)

parseReferrerText(text) == nonBlankLines(text)

SuffixUXUY == <<"U", "X", "U", "Y">>

RECURSIVE indexOfSub(_, _, _)
indexOfSub(s, p, i) ==
  IF i + Len(p) - 1 > Len(s) THEN 0
  ELSE IF SubSeq(s, i, i + Len(p) - 1) = p THEN i
  ELSE indexOfSub(s, p, i + 1)

\* s.replace(p, ''): the first occurrence only
replaceFirst(s, p) ==
  LET k == indexOfSub(s, p, 1)
  IN  IF k = 0 THEN s ELSE SubSeq(s, 1, k - 1) \o SubSeq(s, k + Len(p), Len(s))

RECURSIVE digitsValue(_, _, _)
\* the value of the leading run of decimal digits of s from position i on
digitsValue(s, i, acc) ==
  IF i > Len(s) \/ s[i] \notin DOMAIN DigitValue THEN acc
  ELSE digitsValue(s, i + 1, 10 * acc + DigitValue[s[i]])

HexValue ==
  DigitValue @@ ("a" :> 10) @@ ("b" :> 11) @@ ("c" :> 12) @@ ("d" :> 13) @@ ("e" :> 14) @@
  ("f" :> 15) @@ ("A" :> 10) @@ ("B" :> 11) @@ ("C" :> 12) @@ ("D" :> 13) @@ ("E" :> 14) @@
  ("F" :> 15)

RECURSIVE hexDigitsValue(_, _, _)
hexDigitsValue(s, i, acc) ==
  IF i > Len(s) \/ s[i] \notin DOMAIN HexValue THEN acc
  ELSE hexDigitsValue(s, i + 1, 16 * acc + HexValue[s[i]])

\* parseInt(s) with no radix: [nan, value]. An optional sign, then the leading
\* decimal digits, or the leading hex digits after '0x' / '0X'.
parseInt(s) ==
  LET t == trim(s)
      neg == t # <<>> /\ t[1] = "-"
      start == IF t # <<>> /\ t[1] \in {"-", "+"} THEN 2 ELSE 1
      body == SubSeq(t, start, Len(t))
      isHex == startsWith(body, Prefix0x) \/ startsWith(body, <<"0", "X">>)
      hasDigit == IF isHex THEN Len(body) >= 3 /\ body[3] \in DOMAIN HexValue
                  ELSE body # <<>> /\ body[1] \in DOMAIN DigitValue
      magnitude == IF isHex THEN hexDigitsValue(body, 3, 0) ELSE digitsValue(body, 1, 0)
  IN  IF ~hasDigit THEN [nan |-> TRUE, value |-> 0]
      ELSE [nan |-> FALSE, value |-> IF neg THEN 0 - magnitude ELSE magnitude]

\* the amount read from the last token of the line instead of the second
parseInviteLineLastToken(line) ==
  LET tokens == splitWhitespace(trim(line))
      address == tokens[1]
      parsed == IF Len(tokens) < 2
                THEN [nan |-> TRUE, value |-> 0]
                ELSE parseInt(trim(replaceFirst(tokens[Len(tokens)], SuffixUXUY)))
  IN  [address |-> trim(address),
       amount |-> IF parsed.nan THEN 0 ELSE parsed.value]

parseInviteLine(line) ==
  LET tokens == splitWhitespace(trim(line))
      address == tokens[1]
      parsed == IF Len(tokens) < 2
                THEN [nan |-> TRUE, value |-> 0]
                ELSE parseInt(trim(replaceFirst(tokens[2], SuffixUXUY)))
  IN  [address |-> trim(address),
       amount |-> IF parsed.nan THEN 0 ELSE parsed.value]

parseInviteText(text) ==
  mapSeq(SelectSeq(splitLines(trim(text)), LAMBDA line : trim(line) # <<>>), parseInviteLine)

(***************************************************************************)
(* The deduplicator.                                                       *)
(***************************************************************************)

MaskStars == <<"*", "*", "*", "*", "*", "*">>

maskAddress(address) ==
  IF address = <<>> \/ Len(address) < MinPatternLen THEN address
  ELSE LET cleanedAddress == trim(address)
       IN  sliceFirst(cleanedAddress, PatternHeadLen) \o MaskStars
             \o sliceLast(cleanedAddress, PatternTailLen)

seqHas(s, x) == \E i \in 1..Len(s) : s[i] = x

RECURSIVE distinctInOrder(_)
\* the keys of a Map filled by one set() per element: first-seen order
distinctInOrder(s) ==
  IF s = <<>> THEN <<>>
  ELSE LET rest == distinctInOrder(SubSeq(s, 1, Len(s) - 1))
       IN  IF seqHas(rest, s[Len(s)]) THEN rest ELSE Append(rest, s[Len(s)])

countOf(s, x) == Cardinality({i \in 1..Len(s) : s[i] = x})

\* the filter both findDuplicatePatterns and matchAddresses apply to the referrers
isValidAddress(address) ==
  /\ address # <<>>
  /\ startsWith(trim(address), Prefix0x)
  /\ Len(trim(address)) >= MinPatternLen

\* the grouping key: first 5 and last 4 characters of the raw address, lower-cased
rawPattern(address) ==
  toLowerCase(sliceFirst(address, PatternHeadLen)) \o toLowerCase(sliceLast(address, PatternTailLen))

\* patternMap as the list of its entries in insertion order
patternMapOf(validAddresses) ==
  LET keyed == SelectSeq(validAddresses,
                 LAMBDA a : trim(a) # <<>> /\ Len(rawPattern(a)) >= MinPatternLen)
      keys == distinctInOrder(mapSeq(keyed, rawPattern))
  IN  [k \in 1..Len(keys) |->
         [pattern |-> keys[k],
          addrs |-> SelectSeq(keyed, LAMBDA a : rawPattern(a) = keys[k])]]

exactDuplicates(validAddresses) ==
  LET normalizedAddresses == mapSeq(validAddresses, normalizeAddress)
      keys == distinctInOrder(normalizedAddresses)
      repeated == SelectSeq(keys, LAMBDA n : countOf(normalizedAddresses, n) > 1)
      original(n) == SelectSeq(validAddresses, LAMBDA a : normalizeAddress(a) = n)
  IN  [k \in 1..Len(repeated) |->
         [pattern |-> maskAddress(repeated[k]),
          addresses |-> <<original(repeated[k])[1]>>,
          count |-> countOf(normalizedAddresses, repeated[k]),
          isExactDuplicate |-> TRUE]]

RECURSIVE uniqueByNormalizedKeepsExact(_, _)
\* per normalized form the first raw address, exact duplicates included
uniqueByNormalizedKeepsExact(addrs, processed) ==
  IF addrs = <<>> THEN <<>>
  ELSE LET rest == uniqueByNormalizedKeepsExact(SubSeq(addrs, 1, Len(addrs) - 1), processed)
           a == addrs[Len(addrs)]
       IN  IF ~\E i \in 1..Len(rest) : normalizeAddress(rest[i]) = normalizeAddress(a)
           THEN Append(rest, a)
           ELSE rest

RECURSIVE uniqueByNormalized(_, _)
\* the values of uniqueAddressesByNormalized: per normalized form the first raw address
uniqueByNormalized(addrs, processed) ==
  IF addrs = <<>> THEN <<>>
  ELSE LET rest == uniqueByNormalized(SubSeq(addrs, 1, Len(addrs) - 1), processed)
           a == addrs[Len(addrs)]
       IN  IF normalizeAddress(a) \notin processed
              /\ ~\E i \in 1..Len(rest) : normalizeAddress(rest[i]) = normalizeAddress(a)
           THEN Append(rest, a)
           ELSE rest

patternDuplicates(validAddresses, processed) ==
  LET entries == patternMapOf(validAddresses)
      groupOf(e) ==
        LET uniqueAddresses == uniqueByNormalized(e.addrs, processed)
        IN  [pattern |-> sliceFirst(e.pattern, PatternHeadLen) \o MaskStars
                           \o sliceLast(e.pattern, PatternTailLen),
             addresses |-> uniqueAddresses,
             count |-> Len(uniqueAddresses),
             isExactDuplicate |-> TRUE]
  IN  SelectSeq(mapSeq(SelectSeq(entries, LAMBDA e : Len(e.addrs) > 1), groupOf),
                LAMBDA g : Len(g.addresses) > 1)

findDuplicatePatterns(addresses) ==
  LET validAddresses == SelectSeq(addresses, isValidAddress)
      exact == exactDuplicates(validAddresses)
      processedExactDuplicates == {normalizeAddress(exact[k].addresses[1]) : k \in 1..Len(exact)}
  IN  exact \o patternDuplicates(validAddresses, processedExactDuplicates)

(***************************************************************************)
(* The matcher and the reporter. A Map<number, string[]> is the sequence   *)
(* of its entries [amount, addresses] in insertion order.                  *)
(***************************************************************************)

StandardAmounts == <<0, 10, 15, 20, 30, 50>>

emptyAmountGroups ==
  [i \in 1..Len(StandardAmounts) |-> [amount |-> StandardAmounts[i], addresses |-> <<>>]]

groupHas(groups, amount) == \E i \in 1..Len(groups) : groups[i].amount = amount

\* amountGroups.get(amount), the empty list standing for undefined
groupGet(groups, amount) ==
  IF groupHas(groups, amount)
  THEN groups[CHOOSE i \in 1..Len(groups) : groups[i].amount = amount].addresses
  ELSE <<>>

\* if (!amountGroups.has(amount)) amountGroups.set(amount, [])
groupEnsure(groups, amount) ==
  IF groupHas(groups, amount) THEN groups
  ELSE Append(groups, [amount |-> amount, addresses |-> <<>>])

\* amountGroups.get(amount)?.push(address): nothing happens when the key is absent
groupPush(groups, amount, address) ==
  [i \in 1..Len(groups) |->
     IF groups[i].amount = amount
     THEN [groups[i] EXCEPT !.addresses = Append(@, address)]
     ELSE groups[i]]

\* the comparison matchAddresses makes between an invite address and a referrer
bucketMatch(inviteAddress, referrerAddress) ==
  /\ toLowerCase(sliceFirst(inviteAddress, PatternHeadLen))
       = toLowerCase(sliceFirst(referrerAddress, PatternHeadLen))
  /\ toLowerCase(sliceLast(inviteAddress, PatternTailLen))
       = toLowerCase(sliceLast(referrerAddress, PatternTailLen))

matchStep(groups, entry, referrerAddress) ==
  IF Len(referrerAddress) < MinPatternLen \/ ~bucketMatch(entry.address, referrerAddress)
  THEN groups
  ELSE LET ensured == groupEnsure(groups, entry.amount)
       IN  IF seqHas(groupGet(ensured, entry.amount), referrerAddress)
           THEN ensured
           ELSE groupPush(ensured, entry.amount, referrerAddress)

RECURSIVE matchReferrers(_, _, _, _)
matchReferrers(groups, entry, referrers, i) ==
  IF i > Len(referrers) THEN groups
  ELSE matchReferrers(matchStep(groups, entry, referrers[i]), entry, referrers, i + 1)

RECURSIVE matchEntries(_, _, _, _)
matchEntries(groups, inviteEntries, referrers, j) ==
  IF j > Len(inviteEntries) THEN groups
  ELSE matchEntries(
         IF inviteEntries[j].address = <<>> \/ trim(inviteEntries[j].address) = <<>>
         THEN groups
         ELSE matchReferrers(groups, inviteEntries[j], referrers, 1),
         inviteEntries, referrers, j + 1)

matchAddresses(inviteEntries, referrerAddresses) ==
  matchEntries(emptyAmountGroups, inviteEntries,
               SelectSeq(referrerAddresses, isValidAddress), 1)

RECURSIVE flatten(_)
flatten(ss) == IF ss = <<>> THEN <<>> ELSE Head(ss) \o flatten(Tail(ss))

RECURSIVE sumSeq(_)
sumSeq(s) == IF s = <<>> THEN 0 ELSE Head(s) + sumSeq(Tail(s))

\* the writes if every member of a pattern group counted as the whole group
duplicateWritesGroupCount(duplicates) ==
  flatten([k \in 1..Len(duplicates) |->
    [i \in 1..Len(duplicates[k].addresses) |->
       [addr |-> normalizeAddress(duplicates[k].addresses[i]), count |-> duplicates[k].count]]])

\* the writes to duplicateAddressesSet / duplicateCountByAddress, in order
duplicateWrites(duplicates) ==
  flatten([k \in 1..Len(duplicates) |->
    IF Len(duplicates[k].addresses) = 1
    THEN <<[addr |-> normalizeAddress(duplicates[k].addresses[1]), count |-> duplicates[k].count]>>
    ELSE [i \in 1..Len(duplicates[k].addresses) |->
            [addr |-> normalizeAddress(duplicates[k].addresses[i]), count |-> 1]]])

\* duplicateAddressesSet, from the writes
duplicateAddressesSet(writes) == {writes[i].addr : i \in 1..Len(writes)}

\* duplicateCountByAddress.get(addr): the last write wins
duplicateCountByAddress(writes, addr) ==
  LET last == CHOOSE i \in 1..Len(writes) :
                writes[i].addr = addr /\ \A j \in (i + 1)..Len(writes) : writes[j].addr # addr
  IN  writes[last].count

\* the entries in the order the nested loops over inviteByAmount visit them
inviteByAmountOrder(inviteEntries) ==
  LET amounts == distinctInOrder(mapSeq(inviteEntries, LAMBDA e : e.amount))
  IN  flatten([k \in 1..Len(amounts) |->
                 SelectSeq(inviteEntries, LAMBDA e : e.amount = amounts[k])])

\* the first entry the loops find for one referrer: [matched, amount]
reportMatch(inviteEntries, referrerAddr) ==
  LET hits == SelectSeq(inviteByAmountOrder(inviteEntries),
                        LAMBDA e : addressesMatchByPattern(referrerAddr, e.address))
  IN  IF hits = <<>> THEN [matched |-> FALSE, amount |-> 0]
      ELSE [matched |-> TRUE, amount |-> hits[1].amount]

RECURSIVE reportGroupsFrom(_, _, _, _)
reportGroupsFrom(groups, inviteEntries, referrers, i) ==
  IF i > Len(referrers) THEN groups
  ELSE LET m == reportMatch(inviteEntries, referrers[i])
       IN  reportGroupsFrom(
             groupPush(groups, IF m.matched THEN m.amount ELSE 0, referrers[i]),
             inviteEntries, referrers, i + 1)

\* the amountGroups local to generateDataAnalysisReport after its matching loop
reportAmountGroups(inviteEntries, referrerAddresses) ==
  reportGroupsFrom(emptyAmountGroups, inviteEntries, referrerAddresses, 1)

\* matchedReferrers as its entries [addr, count] in insertion order
matchedReferrers(entries, referrers, writes) ==
  LET matched == SelectSeq(referrers, LAMBDA r : reportMatch(entries, r).matched)
      norms == mapSeq(matched, normalizeAddress)
      keys == distinctInOrder(norms)
      dupSet == duplicateAddressesSet(writes)
  IN  [k \in 1..Len(keys) |->
         [addr |-> keys[k],
          count |-> IF keys[k] \in dupSet THEN countOf(norms, keys[k]) ELSE 1]]

\* the sum the loop over matchedReferrers builds
matchCountOf(matched, writes) ==
  LET dupSet == duplicateAddressesSet(writes)
      counted(addr) ==
        LET c == duplicateCountByAddress(writes, addr) IN IF c = 0 THEN 1 ELSE c
  IN  sumSeq([k \in 1..Len(matched) |->
                IF matched[k].addr \in dupSet THEN counted(matched[k].addr) ELSE 1])

\* the amount of the first bucket holding an address that matches: [found, amount]
tierOf(groups, address) ==
  LET hits == SelectSeq(groups, LAMBDA g :
                \E i \in 1..Len(g.addresses) : addressesMatchByPattern(g.addresses[i], address))
  IN  IF hits = <<>> THEN [found |-> FALSE, amount |-> 0]
      ELSE [found |-> TRUE, amount |-> hits[1].amount]

\* the referrers whose normalized form is not in duplicateAddressesSet
nonDuplicateAddresses(referrers, dupSet) ==
  SelectSeq(referrers, LAMBDA a : normalizeAddress(a) \notin dupSet)

\* per non-duplicate address the tier the loop over amountGroups finds
tiersOf(amountGroups, addresses) ==
  [i \in 1..Len(addresses) |->
     [address |-> addresses[i], tier |-> tierOf(amountGroups, addresses[i])]]

\* the addresses pushed for the amount n
inTier(tiers, n) ==
  mapSeq(SelectSeq(tiers, LAMBDA t : t.tier.found /\ t.tier.amount = n),
         LAMBDA t : t.address)

\* the object generateDataAnalysisReport returns
reportRecord(referrers, duplicates, matchCount, nonDuplicates, tiers) ==
  [matchCount |-> matchCount,
   mismatchCount |-> Len(referrers) - matchCount,
   duplicates |-> duplicates,
   uxuy0Addresses |->
     mapSeq(SelectSeq(tiers, LAMBDA t : ~t.tier.found \/ t.tier.amount = 0),
            LAMBDA t : t.address),
   uxuy10Addresses |-> inTier(tiers, 10),
   finalAddressCount |->
     [total |-> Len(nonDuplicates),
      uxuy10 |-> Len(inTier(tiers, 10)),
      uxuy20 |-> Len(inTier(tiers, 20)),
      uxuy30 |-> Len(inTier(tiers, 30))]]

\* the report after the duplicates are known
reportWithNonDuplicates(referrers, duplicates, matchCount, amountGroups, nonDuplicates) ==
  reportRecord(referrers, duplicates, matchCount, nonDuplicates,
               tiersOf(amountGroups, nonDuplicates))

reportWithWrites(entries, referrers, duplicates, writes) ==
  reportWithNonDuplicates(
    referrers, duplicates,
    matchCountOf(matchedReferrers(entries, referrers, writes), writes),
    reportAmountGroups(entries, referrers),
    nonDuplicateAddresses(referrers, duplicateAddressesSet(writes)))

reportWithDuplicates(entries, referrers, duplicates) ==
  reportWithWrites(entries, referrers, duplicates, duplicateWrites(duplicates))

generateDataAnalysisReport(entries, referrers) ==
  reportWithDuplicates(entries, referrers, findDuplicatePatterns(referrers))

analyzeText(invite, referrer) ==
  LET entries == parseInviteText(invite)
      referrers == parseReferrerText(referrer)
  IN  [totalReferrers |-> Len(referrers),
       amountGroups |-> matchAddresses(entries, referrers),
       duplicates |-> findDuplicatePatterns(referrers),
       dataAnalysisReport |-> generateDataAnalysisReport(entries, referrers)]

\* totalReferrers as the copy of analyzeText that validates its inputs returns it
analyzeTextValidatedTotal(invite, referrer) ==
  IF invite = <<>> \/ referrer = <<>> THEN 0
  ELSE Len(parseReferrerText(referrer))

(***************************************************************************)
(* Inputs.                                                                 *)
(***************************************************************************)

Head11E == <<"0", "x", "1", "1", "e">>
Tail393F == <<"3", "9", "3", "f">>

RECURSIVE repeat(_, _)
repeat(c, n) == IF n = 0 THEN <<>> ELSE <<c>> \o repeat(c, n - 1)

RefMixedCase == <<"0", "x", "1", "1", "e", "A", "A", "3", "9", "3", "F">>
RefLowerCase == Head11E \o <<"a", "a">> \o Tail393F
RefMasked == Head11E \o <<"*", "*">> \o Tail393F
RefNoPrefix == <<"1", "1", "e", "a", "a">> \o Tail393F
RefShort == <<"0", "x", "1", "2">>
RefOther == <<"0", "x", "2", "2", "f", "0", "0", "4", "4", "4", "4">>
RefMaskedLong == <<"0", "x", "1", "1", "E", "&", "*", "*", "*", "3", "9", "3", "F">>

ReferrerLinePool ==
  {RefMixedCase, RefLowerCase, RefMasked, RefMaskedLong, RefNoPrefix, RefShort}

InviteAddress == <<"0", "x", "1", "1", "E", "C", "C", "3", "9", "3", "F">>

Amount10 == <<" ", "1", "0">>
Amount20 == <<" ", "2", "0">>

InviteLinePool ==
  {<<"0", "x", "1", "1", "E", "C", "C", "3", "9", "3", "F">> \o Amount10,
   Head11E \o <<"d", "d">> \o Tail393F \o Amount20,
   RefShort \o Amount10}

\* the two texts hold at most MaxLines lines together
MaxLines == 4

RECURSIVE joinLines(_)
joinLines(lines) ==
  IF lines = <<>> THEN <<>>
  ELSE IF Len(lines) = 1 THEN lines[1]
  ELSE lines[1] \o <<"\n">> \o joinLines(Tail(lines))

linesOf(pool, n) == [1..n -> pool]

InputTexts ==
  UNION {{<<joinLines(i), joinLines(r)>> : i \in linesOf(InviteLinePool, ni),
                                           r \in linesOf(ReferrerLinePool, nr)} :
           <<ni, nr>> \in {p \in (0..MaxLines) \X (0..MaxLines) : p[1] + p[2] <= MaxLines}}

FullHex40 == <<"1", "1", "E">> \o repeat("0", 33) \o Tail393F
Hex39 == <<"1", "1", "e">> \o repeat("0", 32) \o Tail393F

AddressPool ==
  {RefMixedCase, RefMasked, RefMaskedLong, RefNoPrefix, RefShort, RefOther, FullHex40, Hex39,
   <<"0", "x", "1", "*", "1", "e", "a", "a">> \o Tail393F,
   <<" ">> \o Head11E \o <<"B", "B">> \o Tail393F \o <<" ">>,
   <<"*", "*">>,
   <<>>,
   <<"a", "b", "c">>,
   <<"0", "*", "x", "1", "2">>,
   <<"0", "X", "A", "B", "\t">>,
   Prefix0x \o Head11E \o <<"0", "0">> \o Tail393F}

(***************************************************************************)
(* The state machine: the handler checkText, the engine's entry point      *)
(* analyzeText, and the calls of the exported address functions.           *)
(***************************************************************************)

Init ==
  /\ \E p \in InputTexts : inviteText = p[1] /\ referrerText = p[2]
  /\ analysisResults = <<>>
  /\ isChecked = FALSE
  /\ fnArgs = <<<<>>, <<>>>>
  /\ fnResult = <<>>

\* analyzeText(inviteText, referrerText), the result kept by the caller
\* an analysis whose referrer count adds to the count an earlier analysis left
AnalyzeTextKeepsCount ==
  /\ analysisResults' =
       <<[analyzeText(inviteText, referrerText) EXCEPT
            !.totalReferrers = IF analysisResults = <<>> THEN @
                               ELSE @ + analysisResults[1].totalReferrers]>>
  /\ UNCHANGED <<inviteText, referrerText, isChecked, fnArgs, fnResult>>

AnalyzeText ==
  /\ analysisResults' = <<analyzeText(inviteText, referrerText)>>
  /\ UNCHANGED <<inviteText, referrerText, isChecked, fnArgs, fnResult>>

checkText ==
  /\ trim(inviteText) # <<>>
  /\ trim(referrerText) # <<>>
  /\ analysisResults' = <<analyzeText(inviteText, referrerText)>>
  /\ isChecked' = TRUE
  /\ UNCHANGED <<inviteText, referrerText, fnArgs, fnResult>>

Next == AnalyzeText \/ checkText

Spec == Init /\ [][Next]_vars

\* one round of the loop of enhancedAmountGroups: a referrer whose fingerprint
\* no list holds is pushed into the list of amount 0
enhanceStep(result, address) ==
  LET existsInGroups ==
        \E k \in 1..Len(result) : \E i \in 1..Len(result[k].addresses) :
          getAddressMatchPattern(result[k].addresses[i]) = getAddressMatchPattern(address)
  IN  IF existsInGroups \/ seqHas(groupGet(result, 0), address) THEN result
      ELSE groupPush(groupEnsure(result, 0), 0, address)

RECURSIVE enhanceLoop(_, _, _)
enhanceLoop(result, referrers, i) ==
  IF i > Len(referrers) THEN result
  ELSE enhanceLoop(enhanceStep(result, referrers[i]), referrers, i + 1)

\* the Map the memo returns: new Map(amountGroups) and the loop over the referrers
enhancedAmountGroups(amountGroups, referrers) == enhanceLoop(amountGroups, referrers, 1)

\* new Map(amountGroups) copies the entries, not the arrays: a list of the stored
\* Map is the same array as the list of that key in the copy
sharedLists(amountGroups, result) ==
  [k \in 1..Len(amountGroups) |->
     [amountGroups[k] EXCEPT !.addresses = groupGet(result, amountGroups[k].amount)]]

\* the referrer texts the user types into the form
ViewLinePool == {RefLowerCase, RefOther, RefShort}

\* a typed referrer text holds at most MaxViewLines lines
MaxViewLines == 2

ViewReferrerTexts ==
  {joinLines(l) : l \in UNION {[1..n -> ViewLinePool] : n \in 0..MaxViewLines}}

ViewInviteTexts == {InviteAddress \o Amount10, RefOther \o Amount20}

InitView ==
  /\ inviteText \in ViewInviteTexts
  /\ referrerText \in ViewReferrerTexts
  /\ analysisResults = <<>>
  /\ isChecked = FALSE
  /\ fnArgs = <<<<>>, <<>>>>
  /\ fnResult = <<>>

setReferrerText ==
  /\ referrerText' \in ViewReferrerTexts
  /\ UNCHANGED <<inviteText, analysisResults, isChecked, fnArgs, fnResult>>

\* a render of DataAnalysisReport computes the memo from the stored results
\* and the current referrer text
ComputeEnhancedAmountGroups ==
  LET stored == IF analysisResults = <<>> THEN <<>> ELSE analysisResults[1].amountGroups
      result == enhancedAmountGroups(stored, nonBlankLines(referrerText))
  IN  /\ fnResult' = <<[op |-> "enhancedAmountGroups", out |-> result]>>
      /\ analysisResults' =
           IF analysisResults = <<>> THEN <<>>
           ELSE <<[analysisResults[1] EXCEPT !.amountGroups = sharedLists(stored, result)]>>
      /\ UNCHANGED <<inviteText, referrerText, isChecked, fnArgs>>

NextView == checkText \/ setReferrerText \/ ComputeEnhancedAmountGroups

SpecView == InitView /\ [][NextView]_vars

InitFn ==
  /\ inviteText = <<>>
  /\ referrerText = <<>>
  /\ analysisResults = <<>>
  /\ isChecked = FALSE
  /\ fnArgs \in AddressPool \X AddressPool
  /\ fnResult = <<>>

CallNormalizeAddress ==
  /\ fnResult' = <<[op |-> "normalizeAddress", out |-> normalizeAddress(fnArgs[1])]>>
  /\ UNCHANGED <<inviteText, referrerText, analysisResults, isChecked, fnArgs>>

CallNormalizeAddressPrefixOnly ==
  /\ fnResult' = <<[op |-> "normalizeAddressPrefixOnly",
                    out |-> normalizeAddressPrefixOnly(fnArgs[1])]>>
  /\ UNCHANGED <<inviteText, referrerText, analysisResults, isChecked, fnArgs>>

CallGetAddressMatchPattern ==
  /\ fnResult' = <<[op |-> "getAddressMatchPattern", out |-> getAddressMatchPattern(fnArgs[1])]>>
  /\ UNCHANGED <<inviteText, referrerText, analysisResults, isChecked, fnArgs>>

CallAddressesMatchByPattern ==
  /\ fnResult' = <<[op |-> "addressesMatchByPattern",
                    out |-> addressesMatchByPattern(fnArgs[1], fnArgs[2])]>>
  /\ UNCHANGED <<inviteText, referrerText, analysisResults, isChecked, fnArgs>>

\* the decision each of the three matchers takes on the pair (fnArgs[1], fnArgs[2]):
\* matchAddresses with fnArgs[1] as the one invite entry and fnArgs[2] as the one
\* referrer, addressesMatchByPattern, and the deduplicator's pattern grouping
CallMatchers ==
  /\ fnResult' =
       <<[op |-> "matchers",
          bucket |-> seqHas(groupGet(matchAddresses(<<[address |-> fnArgs[1], amount |-> 10]>>,
                                                     <<fnArgs[2]>>), 10), fnArgs[2]),
          report |-> addressesMatchByPattern(fnArgs[2], fnArgs[1]),
          dedup |-> \E k \in 1..Len(patternMapOf(SelectSeq(<<fnArgs[1], fnArgs[2]>>, isValidAddress))) :
                      Len(patternMapOf(SelectSeq(<<fnArgs[1], fnArgs[2]>>, isValidAddress))[k].addrs) = 2]>>
  /\ UNCHANGED <<inviteText, referrerText, analysisResults, isChecked, fnArgs>>

CallAdvancedPatternMatch ==
  /\ fnResult' = <<[op |-> "advancedPatternMatch",
                    out |-> advancedPatternMatch(fnArgs[1], fnArgs[2])]>>
  /\ UNCHANGED <<inviteText, referrerText, analysisResults, isChecked, fnArgs>>

NextFn ==
  \/ CallAdvancedPatternMatch
  \/ CallNormalizeAddress
  \/ CallNormalizeAddressPrefixOnly
  \/ CallGetAddressMatchPattern
  \/ CallAddressesMatchByPattern
  \/ CallMatchers

SpecFn == InitFn /\ [][NextFn]_vars

\* a referrer masked inside its first five characters
RefMaskInHead == <<"0", "x", "1", "*", "1", "e", "b", "b", "3", "9", "3", "f">>
\* nine raw characters that normalize to eight
RefMaskedShort == <<"0", "x", "1", "*", "1", "e", "a", "a", "3">>

\* referrer lines as parseReferrerText returns them: trimmed and not blank
DupPool ==
  {RefLowerCase, RefMixedCase, RefMasked, RefMaskInHead, RefNoPrefix, RefShort,
   RefMaskedShort, FullHex40}

\* findDuplicatePatterns is called on at most MaxDupLen referrers
MaxDupLen == 3

InitDup ==
  /\ inviteText = <<>>
  /\ referrerText = <<>>
  /\ analysisResults = <<>>
  /\ isChecked = FALSE
  /\ fnArgs \in UNION {[1..n -> DupPool] : n \in 0..MaxDupLen}
  /\ fnResult = <<>>

CallFindDuplicatePatterns ==
  /\ fnResult' = <<[op |-> "findDuplicatePatterns", out |-> findDuplicatePatterns(fnArgs)]>>
  /\ UNCHANGED <<inviteText, referrerText, analysisResults, isChecked, fnArgs>>

NextDup == CallFindDuplicatePatterns

SpecDup == InitDup /\ [][NextDup]_vars

RefOtherMasked == <<"0", "x", "2", "2", "f", "*", "*", "4", "4", "4", "4">>

\* two fingerprint families, one of them with an unprefixed member and one
\* masked inside its first five characters
OrderPool == {RefNoPrefix, RefLowerCase, RefMasked, RefMaskInHead, RefOther, RefOtherMasked}

\* longer referrer lists over the smaller pool: at most MaxOrderLen referrers
MaxOrderLen == 5

InitOrder ==
  /\ inviteText = <<>>
  /\ referrerText = <<>>
  /\ analysisResults = <<>>
  /\ isChecked = FALSE
  /\ fnArgs \in UNION {[1..n -> OrderPool] : n \in 0..MaxOrderLen}
  /\ fnResult = <<>>

SpecOrder == InitOrder /\ [][NextDup]_vars

\* raw lines of a text: blank, padded and plain ones
RawLinePool ==
  {<<>>, <<" ", "\t">>, RefLowerCase, <<" ">> \o RefMixedCase \o <<"\t">>, RefShort}

\* a referrer text holds at most MaxTextLines raw lines
MaxTextLines == 3

ReferrerTextPool == {joinLines(l) : l \in UNION {[1..n -> RawLinePool] : n \in 0..MaxTextLines}}

InviteTextPool ==
  {<<>>,
   <<" ">>,
   <<"0", "x", "1", "1", "E", "C", "C", "3", "9", "3", "F">> \o Amount10,
   <<"\n">> \o Head11E \o <<"d", "d">> \o Tail393F \o Amount20 \o <<"\n", "\n">>
     \o RefShort \o Amount10 \o <<"\n">>,
   <<"g", "a", "r", "b", "a", "g", "e">>,
   Head11E \o <<"d", "d">> \o Tail393F \o <<" ", "2", "5">>,
   RefLowerCase \o <<" ", "a", "b", "c", "\n", "\t", "\n">>
     \o RefMasked \o <<" ", "-", "5", "U", "X", "U", "Y", " ", "x">>}

InitText ==
  /\ inviteText = <<>>
  /\ referrerText = <<>>
  /\ analysisResults = <<>>
  /\ isChecked = FALSE
  /\ fnArgs \in InviteTextPool \X ReferrerTextPool
  /\ fnResult = <<>>

CallAnalyzeText ==
  /\ fnResult' = <<[op |-> "analyzeText", out |-> analyzeText(fnArgs[1], fnArgs[2])]>>
  /\ UNCHANGED <<inviteText, referrerText, analysisResults, isChecked, fnArgs>>

CallAnalyzeTextValidated ==
  /\ fnResult' = <<[op |-> "analyzeTextValidated",
                    out |-> [totalReferrers |-> analyzeTextValidatedTotal(fnArgs[1], fnArgs[2])]]>>
  /\ UNCHANGED <<inviteText, referrerText, analysisResults, isChecked, fnArgs>>

NextText == CallAnalyzeText \/ CallAnalyzeTextValidated

SpecText == InitText /\ [][NextText]_vars

\* amount tokens: plain, suffixed, padded with zeros, signed, hex and non-numeric
AmountTokenPool ==
  {<<"1", "0">>,
   <<"2", "0">> \o SuffixUXUY,
   <<"0", "0", "7">> \o SuffixUXUY,
   <<"-", "5">> \o SuffixUXUY,
   <<"+", "3">>,
   <<"0", "x", "1", "f">>,
   <<"a", "b", "c">>,
   SuffixUXUY}

\* invite lines: the address alone, followed by one amount token, or by digits
\* and the suffix as a token of its own
ParseLinePool ==
  {InviteAddress, InviteAddress \o <<" ", "1", "5", " ">> \o SuffixUXUY}
    \cup {InviteAddress \o <<" ">> \o t : t \in AmountTokenPool}
    \cup {InviteAddress \o <<"\t">> \o <<"3", "0">> \o SuffixUXUY \o <<" ">>}

\* parseInviteText is called on a text of at most MaxParseLines lines
MaxParseLines == 3

InitParse ==
  /\ inviteText = <<>>
  /\ referrerText = <<>>
  /\ analysisResults = <<>>
  /\ isChecked = FALSE
  /\ fnArgs \in {joinLines(l) : l \in UNION {[1..n -> ParseLinePool] : n \in 0..MaxParseLines}}
  /\ fnResult = <<>>

CallParseInviteText ==
  /\ fnResult' = <<[op |-> "parseInviteText", out |-> parseInviteText(fnArgs)]>>
  /\ UNCHANGED <<inviteText, referrerText, analysisResults, isChecked, fnArgs>>

NextParse == CallParseInviteText

SpecParse == InitParse /\ [][NextParse]_vars

(***************************************************************************)
(* Properties.                                                             *)
(***************************************************************************)

HasResults == analysisResults # <<>>
results == analysisResults[1]
inviteEntries == parseInviteText(inviteText)
referrerAddresses == parseReferrerText(referrerText)

\* the number of addresses in the buckets of a positive amount
positiveBucketSizes(groups) ==
  sumSeq([i \in 1..Len(groups) |->
            IF groups[i].amount > 0 THEN Len(groups[i].addresses) ELSE 0])

bucketsHolding(groups, address) ==
  {groups[i].amount : i \in {j \in 1..Len(groups) : seqHas(groups[j].addresses, address)}}

hasFingerprint(address) == Len(normalizeAddress(address)) >= MinPatternLen

\* C1 (count conservation): after analyzeText, mismatchCount plus the sizes of
\* the amount buckets with amount > 0 equals totalReferrers.
C1_CountConservation ==
  HasResults =>
    results.dataAnalysisReport.mismatchCount + positiveBucketSizes(results.amountGroups)
      = results.totalReferrers

\* the first entry, in invite input order, whose fingerprint is valid and equal
firstMatchInInputOrder(entries, referrerAddr) ==
  LET hits == SelectSeq(entries, LAMBDA e :
                hasFingerprint(e.address) /\ hasFingerprint(referrerAddr)
                /\ getAddressMatchPattern(e.address) = getAddressMatchPattern(referrerAddr))
  IN  IF hits = <<>> THEN [matched |-> FALSE, amount |-> 0]
      ELSE [matched |-> TRUE, amount |-> hits[1].amount]

\* C2 (first match wins): a referrer that matches an invite entry is placed in
\* the bucket of the first matching entry in invite input order, and in no other,
\* by the report's matching loop and in the amountGroups analyzeText returns.
C2_FirstMatchWins ==
  HasResults =>
    \A i \in 1..Len(referrerAddresses) :
      LET r == referrerAddresses[i]
          first == firstMatchInInputOrder(inviteEntries, r)
      IN  first.matched =>
            /\ bucketsHolding(reportAmountGroups(inviteEntries, referrerAddresses), r)
                 = {first.amount}
            /\ bucketsHolding(results.amountGroups, r) \subseteq {first.amount}

\* C3 (exactly one bucket): after analyzeText every referrer is in exactly one
\* bucket of amountGroups: the bucket of its matching entry, or bucket 0 if no
\* entry matches.
C3_ExactlyOneBucket ==
  HasResults =>
    \A i \in 1..Len(referrerAddresses) :
      LET r == referrerAddresses[i]
          first == firstMatchInInputOrder(inviteEntries, r)
      IN  /\ Cardinality(bucketsHolding(results.amountGroups, r)) = 1
          /\ ~first.matched => bucketsHolding(results.amountGroups, r) = {0}

isExactGroup(g) == Len(g.addresses) = 1
isPatternGroup(g) == Len(g.addresses) > 1

\* C4 (exact-duplicate precedence): a normalized address that can be
\* fingerprinted and occurs two or more times among the referrers is in an exact
\* group whose count is its number of occurrences, and no address with that
\* normalized value is a member of a pattern group.
C4_ExactDuplicatePrecedence ==
  HasResults =>
    \A i \in 1..Len(referrerAddresses) :
      LET n == normalizeAddress(referrerAddresses[i])
          occurrences == countOf(mapSeq(referrerAddresses, normalizeAddress), n)
          dups == results.duplicates
      IN  (hasFingerprint(referrerAddresses[i]) /\ occurrences >= 2) =>
            /\ \E k \in 1..Len(dups) :
                 /\ isExactGroup(dups[k])
                 /\ dups[k].isExactDuplicate
                 /\ normalizeAddress(dups[k].addresses[1]) = n
                 /\ dups[k].count = occurrences
            /\ \A k \in 1..Len(dups) :
                 isPatternGroup(dups[k]) =>
                   \A m \in 1..Len(dups[k].addresses) :
                     normalizeAddress(dups[k].addresses[m]) # n

\* C5 (too-short addresses are unmatchable): a referrer whose normalized form is
\* shorter than 9 characters is in no bucket of a positive amount and is not
\* matched by the report, so it is part of mismatchCount; it is counted in
\* totalReferrers.
C5_ShortUnmatchable ==
  HasResults =>
    LET short == {i \in 1..Len(referrerAddresses) : ~hasFingerprint(referrerAddresses[i])}
    IN  /\ \A i \in short :
             /\ bucketsHolding(results.amountGroups, referrerAddresses[i]) \subseteq {0}
             /\ ~reportMatch(inviteEntries, referrerAddresses[i]).matched
        /\ results.dataAnalysisReport.mismatchCount >= Cardinality(short)
        /\ results.totalReferrers = Len(referrerAddresses)

MatchersCalled == fnResult # <<>> /\ fnResult[1].op = "matchers"

\* C6 (one matching primitive): on every pair of addresses the bucket matcher,
\* the report matcher and the deduplicator's grouping decide alike, namely as
\* equality of two valid fingerprints.
C6_OneMatchingPrimitive ==
  MatchersCalled =>
    LET byFingerprint == /\ hasFingerprint(fnArgs[1])
                         /\ hasFingerprint(fnArgs[2])
                         /\ getAddressMatchPattern(fnArgs[1]) = getAddressMatchPattern(fnArgs[2])
    IN  /\ fnResult[1].bucket = byFingerprint
        /\ fnResult[1].report = byFingerprint
        /\ fnResult[1].dedup = byFingerprint

NormalizerCalled ==
  fnResult # <<>> /\ fnResult[1].op \in {"normalizeAddress", "normalizeAddressPrefixOnly"}

\* C7 (idempotence): normalizing the result of either normalizer again returns it
\* unchanged.
C7_NormalizeIdempotent ==
  /\ (fnResult # <<>> /\ fnResult[1].op = "normalizeAddress")
       => normalizeAddress(fnResult[1].out) = fnResult[1].out
  /\ (fnResult # <<>> /\ fnResult[1].op = "normalizeAddressPrefixOnly")
       => normalizeAddressPrefixOnly(fnResult[1].out) = fnResult[1].out

\* a normalizer ran on an input with surrounding blanks, upper case and mask
\* characters, and changed it
C7_Witness ==
  /\ NormalizerCalled
  /\ fnResult[1].out # fnArgs[1]
  /\ fnResult[1].out # <<>>
  /\ \E i \in 1..Len(fnArgs[1]) : fnArgs[1][i] \in {"*", "&", " "}

MaskSymbols == {"*", "&"}

\* C8 (interior symbols kept): the '*' and '&' of the raw address are all in
\* normalizeAddress's result, in the same order.
C8_InteriorSymbolsKept ==
  (fnResult # <<>> /\ fnResult[1].op = "normalizeAddress") =>
    SelectSeq(fnResult[1].out, LAMBDA c : c \in MaskSymbols)
      = SelectSeq(fnArgs[1], LAMBDA c : c \in MaskSymbols)

isHexString(s) == \A i \in 1..Len(s) : s[i] \in HexChars

\* C9 (prefix rule): on a trimmed, lower-cased string without '0x' a normalizer
\* puts '0x' in front exactly when the string is 40 hexadecimal digits.
C9_PrefixRule ==
  NormalizerCalled =>
    LET t == toLowerCase(trim(fnArgs[1]))
    IN  ~startsWith(t, Prefix0x) =>
          (startsWith(fnResult[1].out, Prefix0x)
             <=> (Len(t) = FullAddressLen /\ isHexString(t)))

\* a full address: '0x' and then hexadecimal digits only, long enough to fingerprint
isFullAddress(a) ==
  /\ Len(a) >= MinPatternLen
  /\ startsWith(toLowerCase(a), Prefix0x)
  /\ isHexString(sliceFrom(a, 2))

\* r shows the first 5 and last 4 characters of a and masks what lies between
isMaskedFormOf(r, a) ==
  /\ Len(r) > MinPatternLen
  /\ toLowerCase(sliceFirst(r, PatternHeadLen)) = toLowerCase(sliceFirst(a, PatternHeadLen))
  /\ toLowerCase(sliceLast(r, PatternTailLen)) = toLowerCase(sliceLast(a, PatternTailLen))
  /\ \A i \in (PatternHeadLen + 1)..(Len(r) - PatternTailLen) : r[i] \in MaskSymbols

\* C10 (fingerprint construction): the fingerprint of an address whose normalized
\* form has 9 or more characters is the first 5 characters of that form followed
\* by its last 4; a masked referrer and a full invite address with the same first
\* 5 and last 4 characters have equal fingerprints, and the referrer is in the
\* bucket of the entry's amount.
C10_FingerprintConstruction ==
  HasResults =>
    /\ \A a \in {referrerAddresses[i] : i \in 1..Len(referrerAddresses)}
              \cup {inviteEntries[j].address : j \in 1..Len(inviteEntries)} :
         LET n == normalizeAddress(a)
             p == getAddressMatchPattern(a)
         IN  Len(n) >= 9 =>
               /\ Len(p) = 9
               /\ \A k \in 1..5 : p[k] = n[k]
               /\ \A k \in 1..4 : p[5 + k] = n[Len(n) - 4 + k]
    /\ \A i \in 1..Len(referrerAddresses) : \A j \in 1..Len(inviteEntries) :
         LET r == referrerAddresses[i]
             e == inviteEntries[j]
         IN  (isFullAddress(e.address) /\ isMaskedFormOf(r, e.address)) =>
               /\ getAddressMatchPattern(r) = getAddressMatchPattern(e.address)
               /\ seqHas(groupGet(results.amountGroups, e.amount), r)

\* a masked referrer sits in the bucket of a full invite entry of a positive amount
C10_Witness ==
  /\ HasResults
  /\ \E i \in 1..Len(referrerAddresses) : \E j \in 1..Len(inviteEntries) :
       /\ isFullAddress(inviteEntries[j].address)
       /\ isMaskedFormOf(referrerAddresses[i], inviteEntries[j].address)
       /\ inviteEntries[j].amount > 0
       /\ seqHas(groupGet(results.amountGroups, inviteEntries[j].amount), referrerAddresses[i])

\* the groups of the returned duplicates that stand for the normalized value n
exactGroupsOf(dups, n) ==
  {k \in 1..Len(dups) : isExactGroup(dups[k]) /\ normalizeAddress(dups[k].addresses[1]) = n}

\* C11 (exact duplicate groups): every normalized value that occurs two or more
\* times among the referrers that can be fingerprinted has exactly one duplicate
\* group; the group is marked exact, holds one representative raw address of
\* that value and its count is the number of occurrences.
C11_ExactDuplicateGroups ==
  HasResults =>
    \A i \in 1..Len(referrerAddresses) :
      LET n == normalizeAddress(referrerAddresses[i])
          occurrences == countOf(mapSeq(referrerAddresses, normalizeAddress), n)
          dups == results.duplicates
      IN  (hasFingerprint(referrerAddresses[i]) /\ occurrences >= 2) =>
            /\ Cardinality(exactGroupsOf(dups, n)) = 1
            /\ \A k \in exactGroupsOf(dups, n) :
                 /\ dups[k].isExactDuplicate
                 /\ seqHas(referrerAddresses, dups[k].addresses[1])
                 /\ dups[k].count = occurrences

\* two referrers whose normalized forms differ and whose fingerprints are valid and equal
samePatternPair(a, b) ==
  /\ normalizeAddress(a) # normalizeAddress(b)
  /\ hasFingerprint(a) /\ hasFingerprint(b)
  /\ getAddressMatchPattern(a) = getAddressMatchPattern(b)

\* C12 (pattern duplicates are not exact): a referrer list of two addresses with
\* different normalized forms and the same fingerprint yields one duplicate
\* group that holds both addresses, has count 2 and is not flagged exact.
C12_PatternGroupNotExact ==
  (HasResults
    /\ Len(referrerAddresses) = 2
    /\ samePatternPair(referrerAddresses[1], referrerAddresses[2])) =>
        /\ Len(results.duplicates) = 1
        /\ results.duplicates[1].addresses = referrerAddresses
        /\ results.duplicates[1].count = 2
        /\ results.duplicates[1].isExactDuplicate = FALSE

\* the referrers that can be fingerprinted and whose normalized value occurs once
notExactDuplicates(referrers) ==
  SelectSeq(referrers, LAMBDA r :
    hasFingerprint(r) /\ countOf(mapSeq(referrers, normalizeAddress), normalizeAddress(r)) = 1)

\* of those, the ones with the fingerprint of address a, in first-seen order
sharingFingerprint(referrers, a) ==
  SelectSeq(notExactDuplicates(referrers),
            LAMBDA r : getAddressMatchPattern(r) = getAddressMatchPattern(a))

DuplicatesCalled == fnResult # <<>> /\ fnResult[1].op = "findDuplicatePatterns"

\* C13 (pattern duplicate groups): among the referrers that are not exact
\* duplicates, every fingerprint shared by two or more distinct normalized values
\* has exactly one pattern group; its members are those raw addresses in
\* first-seen order and its count is the number of members.
C13_PatternDuplicateGroups ==
  DuplicatesCalled =>
    \A i \in 1..Len(fnArgs) :
      LET members == sharingFingerprint(fnArgs, fnArgs[i])
          dups == fnResult[1].out
      IN  (seqHas(members, fnArgs[i]) /\ Len(members) >= 2) =>
            /\ Cardinality({k \in 1..Len(dups) : dups[k].addresses = members}) = 1
            /\ \A k \in 1..Len(dups) :
                 (isPatternGroup(dups[k])
                   /\ \E m \in 1..Len(members) : seqHas(dups[k].addresses, members[m]))
                 => (dups[k].addresses = members /\ dups[k].count = Len(members))

\* C14 (matchCount counts placements): matchCount is the number of placements in
\* the report's buckets of a positive amount, one for every referrer occurrence
\* that matched an invite entry.
C14_MatchCountIsPlacements ==
  HasResults =>
    results.dataAnalysisReport.matchCount
      = positiveBucketSizes(reportAmountGroups(inviteEntries, referrerAddresses))

\* the number of lines of a text that hold a character other than white space:
\* the positions of the first such character of a line
nonBlankLineCount(text) ==
  Cardinality({i \in 1..Len(text) :
    /\ text[i] \notin WhitespaceChars
    /\ \A j \in 1..(i - 1) :
         text[j] \notin WhitespaceChars => \E k \in (j + 1)..(i - 1) : text[k] = "\n"})

AnalysisCalled == fnResult # <<>> /\ fnResult[1].op \in {"analyzeText", "analyzeTextValidated"}

\* C15 (totalReferrers): totalReferrers is the number of non-blank lines of the
\* referrer text, whatever the invite text, in both copies of analyzeText.
C15_TotalReferrers ==
  AnalysisCalled => fnResult[1].out.totalReferrers = nonBlankLineCount(fnArgs[2])

\* C16 (empty invite text): after an analysis of an empty invite text and a
\* non-empty referrer text every referrer is in bucket 0 of amountGroups,
\* matchCount is 0 and mismatchCount equals totalReferrers.
C16_EmptyInvite ==
  (HasResults /\ inviteText = <<>> /\ trim(referrerText) # <<>>) =>
    /\ \A i \in 1..Len(referrerAddresses) :
         bucketsHolding(results.amountGroups, referrerAddresses[i]) = {0}
    /\ results.dataAnalysisReport.matchCount = 0
    /\ results.dataAnalysisReport.mismatchCount = results.totalReferrers

allBucketsEmpty(groups) == \A i \in 1..Len(groups) : groups[i].addresses = <<>>

\* C18 (empty or malformed input): analyzeText returns a report for every pair
\* of texts, and for an empty or blank referrer text the report has
\* totalReferrers = 0, every bucket empty, no duplicate group, matchCount = 0
\* and mismatchCount = 0.
C18_EmptyInputReport ==
  /\ DOMAIN analyzeText(fnArgs[1], fnArgs[2])
       = {"totalReferrers", "amountGroups", "duplicates", "dataAnalysisReport"}
  /\ (fnResult # <<>> /\ fnResult[1].op = "analyzeText") =>
       /\ fnResult[1].out.totalReferrers \in Nat
       /\ fnResult[1].out.dataAnalysisReport.matchCount \in Nat
       /\ trim(fnArgs[2]) = <<>> =>
            /\ fnResult[1].out.totalReferrers = 0
            /\ allBucketsEmpty(fnResult[1].out.amountGroups)
            /\ fnResult[1].out.duplicates = <<>>
            /\ fnResult[1].out.dataAnalysisReport.duplicates = <<>>
            /\ fnResult[1].out.dataAnalysisReport.matchCount = 0
            /\ fnResult[1].out.dataAnalysisReport.mismatchCount = 0

\* analyzeText has returned for a blank referrer text and an invite text with
\* entries
C18_Witness ==
  /\ fnResult # <<>>
  /\ fnResult[1].op = "analyzeText"
  /\ trim(fnArgs[2]) = <<>>
  /\ Len(parseInviteText(fnArgs[1])) >= 2

\* C19 (symmetry): addressesMatchByPattern and advancedPatternMatch return the
\* same answer on (a, b) and on (b, a).
C19_MatchSymmetric ==
  /\ (fnResult # <<>> /\ fnResult[1].op = "addressesMatchByPattern")
       => fnResult[1].out = addressesMatchByPattern(fnArgs[2], fnArgs[1])
  /\ (fnResult # <<>> /\ fnResult[1].op = "advancedPatternMatch")
       => fnResult[1].out = advancedPatternMatch(fnArgs[2], fnArgs[1])

\* advancedPatternMatch has accepted a pair of different addresses of which only
\* one has pattern parts
C19_Witness ==
  /\ fnResult # <<>>
  /\ fnResult[1].op = "advancedPatternMatch"
  /\ fnResult[1].out
  /\ fnArgs[1] # fnArgs[2]
  /\ extractPatternParts(fnArgs[1]) = <<>>
  /\ extractPatternParts(fnArgs[2]) # <<>>

\* C20 (fingerprint stability): the fingerprint of an address equals the
\* fingerprint of its normalized form, also when the address is too short to be
\* fingerprinted.
C20_FingerprintStable ==
  (fnResult # <<>> /\ fnResult[1].op = "getAddressMatchPattern")
    => fnResult[1].out = getAddressMatchPattern(normalizeAddress(fnArgs[1]))

\* the fingerprint of an address that normalization changes has been taken
C20_Witness ==
  /\ fnResult # <<>>
  /\ fnResult[1].op = "getAddressMatchPattern"
  /\ normalizeAddress(fnArgs[1]) # fnArgs[1]
  /\ Len(fnResult[1].out) = PatternHeadLen + PatternTailLen
  /\ \E i \in 1..Len(fnArgs[1]) : fnArgs[1][i] \in MaskSymbols

standardAmount(amount) == \E i \in 1..Len(StandardAmounts) : StandardAmounts[i] = amount

groupedValues(dups) ==
  LET members == flatten([k \in 1..Len(dups) |-> dups[k].addresses])
  IN  {normalizeAddress(members[i]) : i \in 1..Len(members)}

\* C22 (only fingerprintable addresses are grouped): no member of a duplicate
\* group has a normalized form shorter than 9 characters, and every referrer
\* whose normalized form has 9 or more characters takes part in the grouping: a
\* repeated value is in a group, and so is a value that shares its fingerprint
\* with another value that is not an exact duplicate.
C22_OnlyFingerprintableGrouped ==
  DuplicatesCalled =>
    /\ \A n \in groupedValues(fnResult[1].out) : Len(n) >= MinPatternLen
    /\ \A i \in 1..Len(fnArgs) :
         LET n == normalizeAddress(fnArgs[i])
         IN  (hasFingerprint(fnArgs[i])
               /\ \/ countOf(mapSeq(fnArgs, normalizeAddress), n) >= 2
                  \/ Len(sharingFingerprint(fnArgs, fnArgs[i])) >= 2)
             => n \in groupedValues(fnResult[1].out)

noRepeat(s) == \A i, j \in 1..Len(s) : s[i] = s[j] => i = j

\* C23 (no raw address twice in a bucket): in each bucket of the returned
\* amountGroups and in each bucket generateDataAnalysisReport counts from, a raw
\* address occurs at most once.
C23_NoAddressTwiceInBucket ==
  HasResults =>
    /\ \A k \in 1..Len(results.amountGroups) : noRepeat(results.amountGroups[k].addresses)
    /\ \A k \in 1..Len(reportAmountGroups(inviteEntries, referrerAddresses)) :
         noRepeat(reportAmountGroups(inviteEntries, referrerAddresses)[k].addresses)

\* the fingerprints of the addresses of the report's bucket of amount n whose
\* normalized form is in no duplicate group
finalFingerprints(groups, dups, n) ==
  LET bucket == groupGet(groups, n)
  IN  {getAddressMatchPattern(bucket[i]) :
         i \in {j \in 1..Len(bucket) : normalizeAddress(bucket[j]) \notin groupedValues(dups)}}

\* C24 (per-tier final counts): the final count of the tiers 10, 20 and 30 is the
\* number of addresses of the tier's bucket, counted once per fingerprint, whose
\* normalized form is in no duplicate group; a referrer repeated in the input
\* is not among the counted addresses.
C24_PerTierFinalCounts ==
  HasResults =>
    LET groups == reportAmountGroups(inviteEntries, referrerAddresses)
        report == results.dataAnalysisReport
    IN  /\ report.finalAddressCount.uxuy10
             = Cardinality(finalFingerprints(groups, report.duplicates, 10))
        /\ report.finalAddressCount.uxuy20
             = Cardinality(finalFingerprints(groups, report.duplicates, 20))
        /\ report.finalAddressCount.uxuy30
             = Cardinality(finalFingerprints(groups, report.duplicates, 30))
        /\ \A i \in 1..Len(referrerAddresses) :
             countOf(referrerAddresses, referrerAddresses[i]) >= 2
               => ~seqHas(report.uxuy10Addresses, referrerAddresses[i])

\* the position at which a value of f is first seen in the referrer list
RECURSIVE firstSeen(_, _, _, _)
firstSeen(referrers, f(_), value, i) ==
  IF i > Len(referrers) THEN 0
  ELSE IF f(referrers[i]) = value THEN i
  ELSE firstSeen(referrers, f, value, i + 1)

normalizedFirstSeen(referrers, g) ==
  firstSeen(referrers, normalizeAddress, normalizeAddress(g.addresses[1]), 1)

fingerprintFirstSeen(referrers, g) ==
  firstSeen(referrers, getAddressMatchPattern, getAddressMatchPattern(g.addresses[1]), 1)

\* C25 (duplicate group ordering): in the list findDuplicatePatterns returns no
\* exact group follows a pattern group, the exact groups are in the order their
\* normalized value is first seen in the referrer list, and the pattern groups
\* in the order their fingerprint is first seen.
C25_GroupOrdering ==
  DuplicatesCalled =>
    LET dups == fnResult[1].out
    IN  \A i, j \in 1..Len(dups) :
          i < j =>
            /\ isPatternGroup(dups[i]) => isPatternGroup(dups[j])
            /\ (isExactGroup(dups[i]) /\ isExactGroup(dups[j])) =>
                 normalizedFirstSeen(fnArgs, dups[i]) < normalizedFirstSeen(fnArgs, dups[j])
            /\ (isPatternGroup(dups[i]) /\ isPatternGroup(dups[j])) =>
                 fingerprintFirstSeen(fnArgs, dups[i]) < fingerprintFirstSeen(fnArgs, dups[j])

ParseCalled == fnResult # <<>> /\ fnResult[1].op = "parseInviteText"

\* C26 (amounts are non-negative): every entry parseInviteText returns has an
\* amount that is an integer and not below 0, whatever the amount token is.
C26_AmountNonNegative ==
  ParseCalled =>
    \A i \in 1..Len(fnResult[1].out) :
      fnResult[1].out[i].amount \in Int /\ fnResult[1].out[i].amount >= 0

isDigits(s) == s # <<>> /\ \A i \in 1..Len(s) : s[i] \in DOMAIN DigitValue

RECURSIVE decimalOf(_)
\* the integer a string of decimal digits denotes
decimalOf(d) ==
  IF d = <<>> THEN 0 ELSE 10 * decimalOf(SubSeq(d, 1, Len(d) - 1)) + DigitValue[d[Len(d)]]

endsWithSuffix(token) ==
  Len(token) > Len(SuffixUXUY) /\ sliceLast(token, Len(SuffixUXUY)) = SuffixUXUY

\* the digits of an amount written as digits and the suffix, in one token or
\* in two; the empty string if the line has no such amount
suffixedDigits(tokens) ==
  IF Len(tokens) >= 2 /\ endsWithSuffix(tokens[2])
       /\ isDigits(SubSeq(tokens[2], 1, Len(tokens[2]) - Len(SuffixUXUY)))
  THEN SubSeq(tokens[2], 1, Len(tokens[2]) - Len(SuffixUXUY))
  ELSE IF Len(tokens) >= 3 /\ isDigits(tokens[2]) /\ tokens[3] = SuffixUXUY
  THEN tokens[2]
  ELSE <<>>

\* a token that starts, after an optional sign, with a decimal digit
startsInteger(token) ==
  \/ token # <<>> /\ token[1] \in DOMAIN DigitValue
  \/ Len(token) >= 2 /\ token[1] \in {"-", "+"} /\ token[2] \in DOMAIN DigitValue

noIntegerAfterAddress(tokens) ==
  \A k \in 2..Len(tokens) : ~startsInteger(tokens[k])

inviteLines(text) == SelectSeq(splitLines(trim(text)), LAMBDA line : trim(line) # <<>>)

\* C27 (amount parsing): parseInviteText returns one entry per non-blank line;
\* a line whose amount is digits followed by the suffix 'UXUY', with or without
\* a space before the suffix, gets the integer those digits denote, and a line
\* with no integer after the address gets the amount 0.
C27_AmountParsing ==
  ParseCalled =>
    LET lines == inviteLines(fnArgs)
        entries == fnResult[1].out
    IN  /\ Len(entries) = Len(lines)
        /\ \A i \in 1..Len(lines) :
             LET tokens == splitWhitespace(trim(lines[i]))
             IN  /\ suffixedDigits(tokens) # <<>>
                      => entries[i].amount = decimalOf(suffixedDigits(tokens))
                 /\ noIntegerAfterAddress(tokens) => entries[i].amount = 0

\* a text with a suffixed amount in one token, one in two tokens and a line
\* without an integer has been parsed
C27_Witness ==
  /\ ParseCalled
  /\ \E i, j \in 1..Len(inviteLines(fnArgs)) :
       LET ti == splitWhitespace(trim(inviteLines(fnArgs)[i]))
           tj == splitWhitespace(trim(inviteLines(fnArgs)[j]))
       IN  /\ Len(ti) = 3 /\ suffixedDigits(ti) # <<>>
           /\ fnResult[1].out[i].amount = decimalOf(suffixedDigits(ti))
           /\ noIntegerAfterAddress(tj) /\ fnResult[1].out[j].amount = 0
  /\ \E i \in 1..Len(inviteLines(fnArgs)) :
       LET ti == splitWhitespace(trim(inviteLines(fnArgs)[i]))
       IN  Len(ti) = 2 /\ suffixedDigits(ti) # <<>> /\ fnResult[1].out[i].amount > 0

\* C28 (mismatch count is not negative): the report's mismatchCount is at least
\* 0 and its matchCount at most totalReferrers.
C28_MismatchNonNegative ==
  HasResults =>
    /\ results.dataAnalysisReport.mismatchCount >= 0
    /\ results.dataAnalysisReport.matchCount <= results.totalReferrers

\* an analysis of referrers with a duplicate group and an address without the
\* prefix, two or more of them counted as matches
C28_Witness ==
  /\ HasResults
  /\ \E k \in 1..Len(results.duplicates) : results.duplicates[k].count >= 2
  /\ \E i \in 1..Len(referrerAddresses) : ~startsWith(referrerAddresses[i], Prefix0x)
  /\ results.dataAnalysisReport.matchCount >= 2
  /\ results.dataAnalysisReport.mismatchCount >= 0

normalizedMembers(g) == {normalizeAddress(g.addresses[m]) : m \in 1..Len(g.addresses)}

\* C29 (groups are disjoint and non-trivial): every group findDuplicatePatterns
\* returns has a count of 2 or more, and no normalized address value is among
\* the members of two groups.
C29_GroupsDisjointNonTrivial ==
  DuplicatesCalled =>
    LET dups == fnResult[1].out
    IN  /\ \A k \in 1..Len(dups) : dups[k].count >= 2
        /\ \A k, l \in 1..Len(dups) :
             k # l => normalizedMembers(dups[k]) \cap normalizedMembers(dups[l]) = {}

\* a list that yields an exact group and a pattern group
C29_Witness ==
  /\ DuplicatesCalled
  /\ \E k, l \in 1..Len(fnResult[1].out) :
       /\ isExactGroup(fnResult[1].out[k]) /\ fnResult[1].out[k].count >= 2
       /\ isPatternGroup(fnResult[1].out[l]) /\ fnResult[1].out[l].count >= 2

\* C30 (the stored report is not mutated): computing the enhanced amount groups
\* leaves analysisResults, and so every bucket list of its amountGroups, as it was.
C30_ReportNotMutated ==
  [][ComputeEnhancedAmountGroups => analysisResults' = analysisResults]_vars

====
